---- MODULE Spec2Model ----
(***************************************************************************)
(* A model of deep_collection: the path primitives (get_by_path,           *)
(* set_by_path, del_by_path), the field search (paths_to_field), the       *)
(* deduplication (deduped_items) and the DeepCollection wrapper.           *)
(*                                                                         *)
(* Python objects live in a heap (a sequence of objects, an address is an  *)
(* index of it), so that mutation in place, aliasing and shallow copies    *)
(* are what they are in the interpreter.  A value is a scalar (an int, a   *)
(* str, None) or a reference to a heap object (a dict or a list, possibly  *)
(* a DeepCollection instance, which is a dict or a list with two more      *)
(* attributes, _obj and return_deep).                                      *)
(***************************************************************************)
EXTENDS Integers, Sequences, FiniteSets, TLC

VARIABLES
    heap,    \* the objects: heap[a] is the object at address a
    obj,     \* the container handed to the module-level functions
    path,    \* the path, field or subscript argument of the last call
    value,   \* the value argument: of set_by_path and __setitem__, the items
             \* of deduped_items, the default of get
    calls,   \* the calls made so far, each with its outcome
    dc,      \* the DeepCollection instance (a reference), None when unused
    s        \* the caller's own reference to the container it wrapped

vars == <<heap, obj, path, value, calls, dc, s>>

---------------------------------------------------------------------------
(* Values *)

IntV(n) == [kind |-> "int", i |-> n, s |-> ""]
StrV(x) == [kind |-> "str", i |-> 0, s |-> x]
Ref(a) == [kind |-> "ref", i |-> a, s |-> ""]
NoneV == [kind |-> "none", i |-> 0, s |-> ""]

\* An entry of a container: a dict keeps key and value, a list only the value.
KV(k, v) == [k |-> k, v |-> v]
Elem(v) == [k |-> NoneV, v |-> v]

\* A plain dict or list object.
Native(t, items) ==
    [t |-> t, items |-> items, dc |-> FALSE, _obj |-> NoneV, return_deep |-> FALSE]

\* The outcome of a call: st is "ok" or the exception raised, val the value
\* returned, h the heap the call leaves behind.
Ok(v, h) == [st |-> "ok", val |-> v, h |-> h]
Raise(e, h) == [st |-> e, val |-> NoneV, h |-> h]

\* A subscript argument: one key (a str or an int), or an iterable of keys.
Simple(k) == [deep |-> FALSE, key |-> k, keys |-> <<>>]
Compound(ks) == [deep |-> TRUE, key |-> NoneV, keys |-> ks]

---------------------------------------------------------------------------
(* Predicates *)

_stringlike(v) == v.kind = "str"

\* iter(obj) raises TypeError for an int or None; a str is iterable but stringlike.
_can_be_deep(v) == v.kind \in {"ref", "str"} /\ ~_stringlike(v)

---------------------------------------------------------------------------
(* The native containers *)

\* The position of key in a dict's entries, 0 when absent.
DictIndex(items, key) ==
    IF \E n \in 1..Len(items) : items[n].k = key
    THEN CHOOSE n \in 1..Len(items) : items[n].k = key
    ELSE 0

\* The position list index i addresses among len elements, 0 when out of range.
ListIndex(len, i) ==
    LET j == IF i < 0 THEN i + len ELSE i
    IN IF 0 <= j /\ j < len THEN j + 1 ELSE 0

RemoveAt(items, n) == SubSeq(items, 1, n - 1) \o SubSeq(items, n + 1, Len(items))

\* dict.__getitem__ / list.__getitem__
native_getitem(o, key) ==
    IF o.t = "dict"
    THEN LET n == DictIndex(o.items, key)
         IN IF n = 0 THEN [st |-> "KeyError", val |-> NoneV]
            ELSE [st |-> "ok", val |-> o.items[n].v]
    ELSE IF key.kind # "int" THEN [st |-> "TypeError", val |-> NoneV]
    ELSE LET n == ListIndex(Len(o.items), key.i)
         IN IF n = 0 THEN [st |-> "IndexError", val |-> NoneV]
            ELSE [st |-> "ok", val |-> o.items[n].v]

\* dict.__setitem__ / list.__setitem__
native_setitem(o, key, v) ==
    IF o.t = "dict"
    THEN LET n == DictIndex(o.items, key)
         IN [st |-> "ok",
             o |-> [o EXCEPT !.items = IF n = 0 THEN Append(@, KV(key, v))
                                         ELSE [@ EXCEPT ![n] = KV(key, v)]]]
    ELSE IF key.kind # "int" THEN [st |-> "TypeError", o |-> o]
    ELSE LET n == ListIndex(Len(o.items), key.i)
         IN IF n = 0 THEN [st |-> "IndexError", o |-> o]
            ELSE [st |-> "ok", o |-> [o EXCEPT !.items[n] = Elem(v)]]

\* dict.__delitem__ / list.__delitem__
native_delitem(o, key) ==
    IF o.t = "dict"
    THEN LET n == DictIndex(o.items, key)
         IN IF n = 0 THEN [st |-> "KeyError", o |-> o]
            ELSE [st |-> "ok", o |-> [o EXCEPT !.items = RemoveAt(@, n)]]
    ELSE IF key.kind # "int" THEN [st |-> "TypeError", o |-> o]
    ELSE LET n == ListIndex(Len(o.items), key.i)
         IN IF n = 0 THEN [st |-> "IndexError", o |-> o]
            ELSE [st |-> "ok", o |-> [o EXCEPT !.items = RemoveAt(@, n)]]

\* str.__getitem__: one character, or IndexError; a str key is a TypeError.
str_getitem(v, key) ==
    IF key.kind # "int" THEN [st |-> "TypeError", val |-> NoneV]
    ELSE LET n == ListIndex(Len(v.s), key.i)
         IN IF n = 0 THEN [st |-> "IndexError", val |-> NoneV]
            ELSE [st |-> "ok", val |-> StrV(SubSeq(v.s, n, n))]

\* A new object on the heap; its address is the heap's new length.
Alloc(h, o) == Ok(Ref(Len(h) + 1), Append(h, o))

---------------------------------------------------------------------------
(* Subscription, the path primitives and the DeepCollection's item methods. *)
(* operator.getitem(a, b) and the statements a[b] = c, del a[b] dispatch on *)
(* the type of a, and the wrapper's methods call the path primitives, which *)
(* subscript again: the definitions are mutually recursive.                 *)

RECURSIVE getitem(_, _, _)
RECURSIVE setitem(_, _, _, _)
RECURSIVE delitem(_, _, _)
RECURSIVE get_by_path(_, _, _)
RECURSIVE set_by_path_from(_, _, _, _, _)
RECURSIVE __getitem__(_, _, _)
RECURSIVE __setitem__(_, _, _, _)
RECURSIVE __delitem__(_, _, _)

\* DynamicSubclasser.__call__ and DeepCollection.__init__: an instance of a
\* subclass of type(o), initialised with o's entries (list.__init__ and
\* dict.__init__ copy them), that keeps o itself as _obj.
DeepCollection(h, o, return_deep) ==
    Alloc(h, [t |-> h[o.i].t, items |-> h[o.i].items, dc |-> TRUE,
              _obj |-> o, return_deep |-> return_deep])

\* a[key]
getitem(h, a, key) ==
    IF a.kind = "ref"
    THEN IF h[a.i].dc THEN __getitem__(h, a, Simple(key))
         ELSE LET r == native_getitem(h[a.i], key)
              IN [st |-> r.st, val |-> r.val, h |-> h]
    ELSE IF a.kind = "str"
    THEN LET r == str_getitem(a, key) IN [st |-> r.st, val |-> r.val, h |-> h]
    ELSE Raise("TypeError", h)

\* a[key] = v
setitem(h, a, key, v) ==
    IF a.kind = "ref"
    THEN IF h[a.i].dc THEN __setitem__(h, a, Simple(key), v)
         ELSE LET r == native_setitem(h[a.i], key, v)
              IN [st |-> r.st, val |-> NoneV, h |-> [h EXCEPT ![a.i] = r.o]]
    ELSE Raise("TypeError", h)

\* del a[key]
delitem(h, a, key) ==
    IF a.kind = "ref"
    THEN IF h[a.i].dc THEN __delitem__(h, a, Simple(key))
         ELSE LET r == native_delitem(h[a.i], key)
              IN [st |-> r.st, val |-> NoneV, h |-> [h EXCEPT ![a.i] = r.o]]
    ELSE Raise("TypeError", h)

\* reduce(operator.getitem, path, obj)
get_by_path(h, o, p) ==
    IF p = <<>> THEN Ok(o, h)
    ELSE LET r == getitem(h, o, Head(p))
         IN IF r.st # "ok" THEN r ELSE get_by_path(r.h, r.val, Tail(p))

\* A faulty variant: a new empty list is made where a key is missing.
VivifiedList == Native("list", <<>>)

\* What set_by_path puts where a key is missing: a new empty dict.
Vivified == Native("dict", <<>>)

\* The handler of the probe branch[part]: the exceptions it catches.
VivifyOn == {"IndexError", "KeyError"}

\* A faulty variant: traversed is path: an identity test, false of two lists.
AtEndIdentity(traversed, p) == FALSE

\* A faulty variant: traversed == path[:-1]: the value is assigned one key early.
AtEndEarly(traversed, p) == traversed = SubSeq(p, 1, Len(p) - 1)

\* traversed == path: the loop has reached the path's last key.
AtEnd(traversed, p) == traversed = p

\* The loop of set_by_path from its n-th iteration on.
set_by_path_from(h, o, p, v, n) ==
    IF n > Len(p) THEN Ok(NoneV, h)
    ELSE
    LET traversed == SubSeq(p, 1, n - 1)
        b == get_by_path(h, o, traversed)
    IN IF b.st # "ok" THEN b ELSE
    LET part == p[n]
        branch == b.val
        probe == getitem(b.h, branch, part)
        made == Alloc(b.h, Vivified)
        w == IF probe.st = "ok" THEN Ok(NoneV, probe.h)
             ELSE IF probe.st \in VivifyOn
             THEN setitem(made.h, branch, part, made.val)
             ELSE probe
    IN IF w.st # "ok" THEN w ELSE
    LET f == IF AtEnd(Append(traversed, part), p)
             THEN setitem(w.h, branch, part, v)
             ELSE w
    IN IF f.st # "ok" THEN f ELSE set_by_path_from(f.h, o, p, v, n + 1)

set_by_path(h, o, p, v) == set_by_path_from(h, o, p, v, 1)

\* A faulty variant: del get_by_path(obj, path[:-1])[path[0]]
del_by_path_first(h, o, p) ==
    LET b == get_by_path(h, o, SubSeq(p, 1, Len(p) - 1))
    IN IF b.st # "ok" THEN b
       ELSE IF p = <<>> THEN Raise("IndexError", b.h)
       ELSE delitem(b.h, b.val, p[1])

\* del get_by_path(obj, path[:-1])[path[-1]]
del_by_path(h, o, p) ==
    LET b == get_by_path(h, o, SubSeq(p, 1, Len(p) - 1))
    IN IF b.st # "ok" THEN b
       ELSE IF p = <<>> THEN Raise("IndexError", b.h)
       ELSE delitem(b.h, b.val, p[Len(p)])

\* DeepCollection.__getitem__
__getitem__(h, self, p) ==
    LET rv == IF ~p.deep THEN getitem(h, h[self.i]._obj, p.key)
              ELSE get_by_path(h, h[self.i]._obj, p.keys)
    IN IF rv.st # "ok" THEN rv
       ELSE IF _can_be_deep(rv.val) /\ h[self.i].return_deep
       THEN DeepCollection(rv.h, rv.val, TRUE)
       ELSE rv

\* DeepCollection.__setitem__
__setitem__(h, self, p, v) ==
    IF p.deep THEN set_by_path(h, self, p.keys, v)
    ELSE LET r == native_setitem(h[self.i], p.key, v)
         IN IF r.st # "ok" THEN Raise(r.st, h)
            ELSE setitem([h EXCEPT ![self.i] = r.o], h[self.i]._obj, p.key, v)

\* DeepCollection.__delitem__
__delitem__(h, self, p) ==
    IF p.deep THEN del_by_path(h, self, p.keys)
    ELSE LET r == native_delitem(h[self.i], p.key)
         IN IF r.st # "ok" THEN Raise(r.st, h)
            ELSE delitem([h EXCEPT ![self.i] = r.o], h[self.i]._obj, p.key)

---------------------------------------------------------------------------
(* Literals.  A tree is a Python literal: a scalar, or a dict or a list of *)
(* trees.  AllocTree evaluates a literal (every container a new object),    *)
(* ToTree reads back the literal an object prints as.                      *)

Leaf(v) == [t |-> "leaf", v |-> v, items |-> <<>>]
Dict(items) == [t |-> "dict", v |-> NoneV, items |-> items]
List(items) == [t |-> "list", v |-> NoneV, items |-> items]

RECURSIVE AllocTree(_, _)
RECURSIVE AllocItems(_, _, _)

AllocItems(h, its, acc) ==
    IF its = <<>> THEN [h |-> h, items |-> acc]
    ELSE LET r == AllocTree(h, Head(its).v)
         IN AllocItems(r.h, Tail(its), Append(acc, KV(Head(its).k, r.val)))

AllocTree(h, t) ==
    IF t.t = "leaf" THEN Ok(t.v, h)
    ELSE LET r == AllocItems(h, t.items, <<>>)
         IN Alloc(r.h, Native(t.t, r.items))

RECURSIVE ToTree(_, _)
ToTree(h, v) ==
    IF v.kind # "ref" THEN Leaf(v)
    ELSE [t |-> h[v.i].t, v |-> NoneV,
          items |-> [n \in 1..Len(h[v.i].items) |->
                        KV(h[v.i].items[n].k, ToTree(h, h[v.i].items[n].v))]]

---------------------------------------------------------------------------
(* Bounds and the inputs drawn within them *)

MaxDepth == 2      \* nesting depth of the containers
MaxPathLen == 2    \* number of keys of a path

LeafTrees == {Leaf(IntV(1)), Leaf(StrV("a"))}

\* The trees of depth at most d: a container holds one subtree, at key "a" or
\* as the last element, and at most one scalar beside it.
RECURSIVE TreesOfDepth(_)
TreesOfDepth(d) ==
    IF d = 0 THEN LeafTrees
    ELSE LET sub == TreesOfDepth(d - 1)
         IN LeafTrees \cup {Dict(<<>>), List(<<>>)}
            \cup {Dict(<<KV(StrV("a"), x)>>) : x \in sub}
            \cup {Dict(<<KV(StrV("a"), x), KV(IntV(0), Leaf(IntV(1)))>>) : x \in sub}
            \cup {List(<<Elem(x)>>) : x \in sub}
            \cup {List(<<Elem(Leaf(StrV("a"))), Elem(x)>>) : x \in sub}

Containers == {t \in TreesOfDepth(MaxDepth) : t.t # "leaf"}

PathKeys == {StrV("a"), StrV("b"), IntV(0), IntV(-1)}

RECURSIVE SeqsUpTo(_, _)
SeqsUpTo(S, n) ==
    IF n = 0 THEN {<<>>}
    ELSE LET shorter == SeqsUpTo(S, n - 1)
         IN shorter \cup {Append(q[1], q[2]) : q \in shorter \X S}

Paths == SeqsUpTo(PathKeys, MaxPathLen)

ValueTrees == {Leaf(IntV(7)), Dict(<<>>)}

---------------------------------------------------------------------------
(* The path primitives called on a plain container *)

Call(op, r) == [op |-> op, st |-> r.st, val |-> r.val, pre |-> heap]

InitPath ==
    \E t \in Containers, p \in Paths, v \in ValueTrees :
        LET a == AllocTree(<<>>, t)
            b == AllocTree(a.h, v)
        IN /\ heap = b.h
           /\ obj = a.val
           /\ path = p
           /\ value = b.val
           /\ calls = <<>>
           /\ dc = NoneV
           /\ s = NoneV

CallSetByPath ==
    /\ calls = <<>>
    /\ LET r == set_by_path(heap, obj, path, value)
       IN heap' = r.h /\ calls' = <<Call("set_by_path", r)>>
    /\ UNCHANGED <<obj, path, value, dc, s>>

CallDelByPath ==
    /\ calls = <<>>
    /\ LET r == del_by_path(heap, obj, path)
       IN heap' = r.h /\ calls' = <<Call("del_by_path", r)>>
    /\ UNCHANGED <<obj, path, value, dc, s>>

CallGetByPath ==
    /\ Len(calls) = 1
    /\ calls[1].op \in {"set_by_path", "del_by_path"}
    /\ LET r == get_by_path(heap, obj, path)
       IN heap' = r.h /\ calls' = Append(calls, Call("get_by_path", r))
    /\ UNCHANGED <<obj, path, value, dc, s>>

NextPath == CallSetByPath \/ CallDelByPath \/ CallGetByPath

SpecPath == InitPath /\ [][NextPath]_vars

---------------------------------------------------------------------------
(* Field search *)

\* A generator's outcome: the paths it yielded, in order, and how it ended.
Yields(st, out) == [st |-> st, out |-> out]

\* The exceptions the probe get_by_path(obj, field) is caught for.
ProbeCaught == {"KeyError", "IndexError", "TypeError"}

RECURSIVE paths_to_field(_, _, _, _)
RECURSIVE paths_to_field_children(_, _, _, _, _)

\* The loops over obj.items() / enumerate(obj), from the n-th entry on.
paths_to_field_children(h, o, field, current, n) ==
    IF n > Len(h[o.i].items) THEN Yields("ok", <<>>)
    ELSE
    LET e == h[o.i].items[n]
        isdict == h[o.i].t = "dict"
        k == IF isdict THEN e.k ELSE IntV(n - 1)
        hit == IF field.deep THEN <<>>
               ELSE IF isdict
               THEN IF k = field.key THEN <<Append(current, k)>> ELSE <<>>
               ELSE IF e.v = field.key THEN <<Append(current, k)>> ELSE <<>>
        below == IF field.deep \/ _can_be_deep(e.v)
                 THEN paths_to_field(h, e.v, field, Append(current, k))
                 ELSE Yields("ok", <<>>)
    IN IF below.st # "ok" THEN Yields(below.st, hit \o below.out)
       ELSE LET rest == paths_to_field_children(h, o, field, current, n + 1)
            IN Yields(rest.st, hit \o below.out \o rest.out)

paths_to_field(h, o, field, current) ==
    IF ~_can_be_deep(o) THEN Yields("TypeError", <<>>)
    ELSE IF field.deep
    THEN IF get_by_path(h, o, field.keys).st \in ProbeCaught
         THEN paths_to_field_children(h, o, field, current, 1)
         ELSE Yields("ok", <<current \o field.keys>>)
    ELSE paths_to_field_children(h, o, field, current, 1)

Fields == {Simple(k) : k \in PathKeys \cup {IntV(1)}} \cup {Compound(p) : p \in Paths}

InitSearch ==
    \E t \in Containers, f \in Fields :
        LET a == AllocTree(<<>>, t)
        IN /\ heap = a.h
           /\ obj = a.val
           /\ path = f
           /\ value = NoneV
           /\ calls = <<>>
           /\ dc = NoneV
           /\ s = NoneV

\* list(paths_to_field(obj, field))
CallPathsToField ==
    /\ calls = <<>>
    /\ LET r == paths_to_field(heap, obj, path, <<>>)
       IN calls' = <<[op |-> "paths_to_field", st |-> r.st, val |-> r.out,
                      pre |-> heap]>>
    /\ UNCHANGED <<heap, obj, path, value, dc, s>>

\* [get_by_path(obj, p) for p in the paths found]: values_for_field
CallValuesForField ==
    /\ Len(calls) = 1 /\ calls[1].op = "paths_to_field" /\ calls[1].st = "ok"
    /\ LET found == calls[1].val
           got == [n \in 1..Len(found) |-> get_by_path(heap, obj, found[n])]
       IN calls' = Append(calls,
              [op |-> "values_for_field",
               st |-> IF \A n \in 1..Len(found) : got[n].st = "ok" THEN "ok"
                      ELSE got[CHOOSE n \in 1..Len(found) : got[n].st # "ok"].st,
               val |-> [n \in 1..Len(found) |-> got[n].val],
               pre |-> heap])
    /\ UNCHANGED <<heap, obj, path, value, dc, s>>

NextSearch == CallPathsToField \/ CallValuesForField

SpecSearch == InitSearch /\ [][NextSearch]_vars

---------------------------------------------------------------------------
(* Deduplication *)

\* a == b on the values of the model: scalars by kind and value, lists
\* element by element, dicts entry by entry whatever the insertion order.
RECURSIVE PyEq(_, _, _)
PyEq(h, a, b) ==
    IF a.kind # "ref" \/ b.kind # "ref" THEN a = b
    ELSE \/ a.i = b.i
         \/ /\ h[a.i].t = h[b.i].t
            /\ Len(h[a.i].items) = Len(h[b.i].items)
            /\ \A n \in 1..Len(h[a.i].items) :
                  IF h[a.i].t = "list"
                  THEN PyEq(h, h[a.i].items[n].v, h[b.i].items[n].v)
                  ELSE \E m \in 1..Len(h[b.i].items) :
                          /\ h[a.i].items[n].k = h[b.i].items[m].k
                          /\ PyEq(h, h[a.i].items[n].v, h[b.i].items[m].v)

\* hash(v) raises TypeError for a dict or a list.
Hashable(v) == v.kind # "ref"

\* x in xs
Contains(h, xs, x) == \E n \in 1..Len(xs) : PyEq(h, xs[n], x)

\* The lists a set of values may be listed as: every order of its elements.
Listings(S) ==
    {q \in [1..Cardinality(S) -> S] : \A x \in S : \E n \in DOMAIN q : q[n] = x}

\* A faulty variant: the comprehension tests i against items[n:], which holds i itself.
KeptInFallbackFromN(h, xs, n) == ~Contains(h, SubSeq(xs, n, Len(xs)), xs[n])

\* i not in items[n + 1:]
KeptInFallback(h, xs, n) == ~Contains(h, SubSeq(xs, n + 1, Len(xs)), xs[n])

\* The elements of xs at the positions P, in order.
RECURSIVE Select(_, _, _)
Select(xs, P, n) ==
    IF n > Len(xs) THEN <<>>
    ELSE (IF n \in P THEN <<xs[n]>> ELSE <<>>) \o Select(xs, P, n + 1)

\* The exceptions list(set(items)) is caught for.
HashCaught == {"TypeError"}

\* deduped_items(items): the outcomes the call may have (the order a set is
\* listed in is the interpreter's).
deduped_items(h, xs) ==
    LET fast == IF \A n \in 1..Len(xs) : Hashable(xs[n])
                THEN {[st |-> "ok", val |-> q] :
                         q \in Listings({xs[n] : n \in 1..Len(xs)})}
                ELSE {[st |-> "TypeError", val |-> <<>>]}
        fallback == [st |-> "ok",
                     val |-> Select(xs, {n \in 1..Len(xs) : KeptInFallback(h, xs, n)}, 1)]
    IN {IF r.st \in HashCaught THEN fallback ELSE r : r \in fast}

MaxItems == 3    \* number of items handed to deduped_items

ItemTrees ==
    {Leaf(IntV(1)), Leaf(StrV("a")), Dict(<<>>), List(<<Elem(Leaf(IntV(1)))>>),
     Dict(<<KV(StrV("a"), Leaf(IntV(1))), KV(IntV(0), List(<<>>))>>),
     Dict(<<KV(IntV(0), List(<<>>)), KV(StrV("a"), Leaf(IntV(1)))>>)}

InitDedup ==
    \E ts \in SeqsUpTo(ItemTrees, MaxItems) :
        LET a == AllocItems(<<>>, [n \in 1..Len(ts) |-> Elem(ts[n])], <<>>)
        IN /\ heap = a.h
           /\ obj = NoneV
           /\ path = <<>>
           /\ value = [n \in 1..Len(ts) |-> a.items[n].v]
           /\ calls = <<>>
           /\ dc = NoneV
           /\ s = NoneV

\* deduped_items(items), and deduped_items of what it returned
CallDedupedItems ==
    /\ Len(calls) < 2
    /\ \A n \in 1..Len(calls) : calls[n].st = "ok"
    /\ \E r \in deduped_items(heap, IF calls = <<>> THEN value ELSE calls[1].val) :
          calls' = Append(calls, [op |-> "deduped_items", st |-> r.st,
                                  val |-> r.val, pre |-> heap])
    /\ UNCHANGED <<heap, obj, path, value, dc, s>>

NextDedup == CallDedupedItems

SpecDedup == InitDedup /\ [][NextDedup]_vars

---------------------------------------------------------------------------
(* The DeepCollection wrapper *)

\* A faulty variant: get catches the lookup and index failures only.
GetCaughtLookups == {"KeyError", "IndexError"}

\* The exceptions DeepCollection.get is caught for.
GetCaught == {"KeyError", "IndexError", "TypeError"}

\* DeepCollection.get
get(h, self, p, default) ==
    LET r == __getitem__(h, self, p)
    IN IF r.st \in GetCaught THEN Ok(default, r.h) ELSE r

\* The wrapper of _ensure_post_call_sync around an inherited method, after
\* the method has run with outcome r: an exception propagates; otherwise
\* _obj is rebound to type(self._obj)(self) when it differs from self.
_ensure_post_call_sync(self, r) ==
    IF r.st # "ok" THEN r
    ELSE IF ~PyEq(r.h, r.h[self.i]._obj, self)
    THEN LET copy == Alloc(r.h, Native(r.h[r.h[self.i]._obj.i].t, r.h[self.i].items))
         IN Ok(r.val, [copy.h EXCEPT ![self.i]._obj = copy.val])
    ELSE r

\* list.append(self, x)
list_append(h, self, x) ==
    Ok(NoneV, [h EXCEPT ![self.i].items = Append(@, Elem(x))])

\* list.pop(self)
list_pop(h, self) ==
    IF h[self.i].items = <<>> THEN Raise("IndexError", h)
    ELSE Ok(h[self.i].items[Len(h[self.i].items)].v,
            [h EXCEPT ![self.i].items = SubSeq(@, 1, Len(@) - 1)])

\* dict.update(self, {k: v}), also dict.__ior__
dict_update(h, self, k, v) ==
    Ok(NoneV, [h EXCEPT ![self.i] = native_setitem(@, k, v).o])

\* The objects reachable from the values todo, in the order met.
RECURSIVE Mark(_, _, _)
Mark(h, todo, seen) ==
    IF todo = <<>> THEN seen
    ELSE LET v == Head(todo)
         IN IF v.kind # "ref" \/ \E n \in 1..Len(seen) : seen[n] = v.i
            THEN Mark(h, Tail(todo), seen)
            ELSE Mark(h, [n \in 1..Len(h[v.i].items) |-> h[v.i].items[n].v]
                         \o <<h[v.i]._obj>> \o Tail(todo),
                      Append(seen, v.i))

\* v with its address replaced by its position in live.
Moved(v, live) ==
    IF v.kind # "ref" THEN v ELSE Ref(CHOOSE n \in 1..Len(live) : live[n] = v.i)

\* The heap without the objects no reference reaches any more, the others
\* moved to the addresses 1..Len(live).
Collected(h, live) ==
    [n \in 1..Len(live) |->
        [h[live[n]] EXCEPT
            !.items = [m \in 1..Len(@) |-> KV(@[m].k, Moved(@[m].v, live))],
            !._obj = Moved(@, live)]]

MaxCalls == 3    \* number of mutating calls made on the wrapper

\* The containers wrapped, the subscripts and the values of the calls.
WrappedTrees ==
    {Dict(<<>>), List(<<>>),
     Dict(<<KV(StrV("a"), Leaf(IntV(1)))>>),
     Dict(<<KV(StrV("a"), Dict(<<KV(StrV("a"), Leaf(IntV(1)))>>))>>),
     Dict(<<KV(StrV("a"), List(<<Elem(Leaf(StrV("a")))>>)), KV(IntV(0), Leaf(IntV(1)))>>),
     List(<<Elem(Leaf(IntV(1)))>>),
     List(<<Elem(Leaf(StrV("a"))), Elem(Dict(<<KV(StrV("a"), Leaf(IntV(1)))>>))>>),
     List(<<Elem(List(<<Elem(Leaf(IntV(1)))>>))>>)}

WrapperKeys == {StrV("a"), IntV(0)}

Subscripts ==
    {Simple(k) : k \in WrapperKeys}
    \cup {Compound(<<k>>) : k \in WrapperKeys}
    \cup {Compound(<<k[1], k[2]>>) : k \in WrapperKeys \X WrapperKeys}

WrapperValues == {Leaf(IntV(7))}

\* dc = DeepCollection(s, return_deep=...)
InitWrapper ==
    \E t \in WrappedTrees, return_deep \in BOOLEAN :
        LET a == AllocTree(<<>>, t)
            w == DeepCollection(a.h, a.val, return_deep)
            live == Mark(w.h, <<a.val, w.val>>, <<>>)
        IN /\ heap = Collected(w.h, live)
           /\ s = Moved(a.val, live)
           /\ dc = Moved(w.val, live)
           /\ obj = NoneV
           /\ path = NoneV
           /\ value = NoneV
           /\ calls = <<>>

\* The state after a call on the wrapper with outcome r: the caller keeps s,
\* dc, the argument v and the value returned.
Returned(op, p, v, r) ==
    LET live == Mark(r.h, <<s, dc, v, r.val>>, <<>>)
    IN /\ heap' = Collected(r.h, live)
       /\ s' = Moved(s, live)
       /\ dc' = Moved(dc, live)
       /\ path' = p
       /\ value' = Moved(v, live)
       /\ calls' = <<[op |-> op, st |-> r.st, val |-> Moved(r.val, live),
                      n |-> IF calls = <<>> THEN 1 ELSE calls[1].n + 1]>>
       /\ obj' = obj

CanCall ==
    IF calls = <<>> THEN TRUE
    ELSE calls[1].n < MaxCalls /\ calls[1].op \notin {"get", "__getitem__"}

\* dc[p] = v
SetItem ==
    /\ CanCall
    /\ \E p \in Subscripts, t \in WrapperValues :
          LET v == AllocTree(heap, t)
          IN Returned("__setitem__", p, v.val, __setitem__(v.h, dc, p, v.val))

\* del dc[p]
DelItem ==
    /\ CanCall
    /\ \E p \in Subscripts :
          Returned("__delitem__", p, NoneV, __delitem__(heap, dc, p))

\* dc.get(p, default)
Get ==
    /\ IF calls = <<>> THEN TRUE ELSE calls[1].op \notin {"get", "__getitem__"}
    /\ \E p \in Subscripts :
          Returned("get", p, IntV(7), get(heap, dc, p, IntV(7)))

\* dc[p]
GetItem ==
    /\ IF calls = <<>> THEN TRUE ELSE calls[1].op \notin {"get", "__getitem__"}
    /\ \E p \in Subscripts :
          Returned("__getitem__", p, NoneV, __getitem__(heap, dc, p))

\* dc.append(x)
ListAppend ==
    /\ CanCall
    /\ heap[dc.i].t = "list"
    /\ \E t \in WrapperValues :
          LET x == AllocTree(heap, t)
          IN Returned("append", NoneV, x.val,
                      _ensure_post_call_sync(dc, list_append(x.h, dc, x.val)))

\* dc.pop()
ListPop ==
    /\ CanCall
    /\ heap[dc.i].t = "list"
    /\ Returned("pop", NoneV, NoneV, _ensure_post_call_sync(dc, list_pop(heap, dc)))

\* dc += [x]: list.__iadd__, found on the type and not through __getattribute__
ListIAdd ==
    /\ CanCall
    /\ heap[dc.i].t = "list"
    /\ \E t \in WrapperValues :
          LET x == AllocTree(heap, t)
          IN Returned("__iadd__", NoneV, x.val, list_append(x.h, dc, x.val))

\* dc.update({k: v})
DictUpdate ==
    /\ CanCall
    /\ heap[dc.i].t = "dict"
    /\ \E k \in WrapperKeys, t \in WrapperValues :
          LET v == AllocTree(heap, t)
          IN Returned("update", Simple(k), v.val,
                      _ensure_post_call_sync(dc, dict_update(v.h, dc, k, v.val)))

\* dc |= {k: v}: dict.__ior__, found on the type and not through __getattribute__
DictIOr ==
    /\ CanCall
    /\ heap[dc.i].t = "dict"
    /\ \E k \in WrapperKeys, t \in WrapperValues :
          LET v == AllocTree(heap, t)
          IN Returned("__ior__", Simple(k), v.val, dict_update(v.h, dc, k, v.val))

NextWrapper ==
    \/ SetItem \/ DelItem \/ Get \/ GetItem
    \/ ListAppend \/ ListPop \/ ListIAdd
    \/ DictUpdate \/ DictIOr

SpecWrapper == InitWrapper /\ [][NextWrapper]_vars

---------------------------------------------------------------------------
(* What the claims about the path primitives say, stated on literals *)

Failures == {"KeyError", "IndexError", "TypeError"}

\* The nested mappings {k1: {... {kn: v}}} of a path k1..kn and a value v.
RECURSIVE NestedDicts(_, _)
NestedDicts(p, v) ==
    IF p = <<>> THEN v ELSE Dict(<<KV(Head(p), NestedDicts(Tail(p), v))>>)

\* The literal a successful set_by_path(c, p, v) is to leave: the entry at p
\* holds v, missing keys hold nested mappings, every other entry is kept.
RECURSIVE TreeSet(_, _, _)
TreeSet(t, p, v) ==
    IF p = <<>> \/ t.t = "leaf" THEN t
    ELSE LET key == Head(p)
             n == IF t.t = "dict" THEN DictIndex(t.items, key)
                  ELSE ListIndex(Len(t.items), key.i)
             below == IF Len(p) = 1 THEN v ELSE TreeSet(t.items[n].v, Tail(p), v)
         IN IF n = 0
            THEN [t EXCEPT !.items = Append(@, KV(key, NestedDicts(Tail(p), v)))]
            ELSE [t EXCEPT !.items[n].v = below]

SetThenGet ==
    /\ Len(calls) = 2
    /\ calls[1].op = "set_by_path" /\ calls[1].st = "ok"
    /\ calls[2].op = "get_by_path"

DelThenGet ==
    /\ Len(calls) = 2
    /\ calls[1].op = "del_by_path" /\ calls[1].st = "ok"
    /\ calls[2].op = "get_by_path"

\* C3 as stated: after a set_by_path that returned, get_by_path of the same
\* path, of any length, returns the value set.
C3_RoundTripAnyLength ==
    SetThenGet => calls[2].st = "ok" /\ calls[2].val = value

\* C3 amended: after a set_by_path that returned, get_by_path of the same path
\* returns the value set, for every path of at least one key.
C3_RoundTrip ==
    SetThenGet /\ path # <<>> => calls[2].st = "ok" /\ calls[2].val = value

C3_Witness ==
    /\ SetThenGet /\ Len(path) = 2
    /\ ToTree(calls[1].pre, obj) # ToTree(heap, obj)
    /\ calls[2].val = value

\* C4 as stated: after a del_by_path that succeeded, get_by_path of the same
\* path fails with a lookup or an index failure, in mappings and sequences.
C4_NoStaleRead ==
    DelThenGet => calls[2].st \in {"KeyError", "IndexError"}

\* C4 amended: after a del_by_path that succeeded, get_by_path of the same path
\* fails with a lookup failure when the final key was a key of a mapping; when
\* it was an index of a sequence, the elements have moved up, and it fails
\* (with an index failure) only when the index no longer addresses an element,
\* and returns the element now at that index otherwise.
C4_NoStaleReadInMappings ==
    DelThenGet =>
        LET pre == calls[1].pre
            parent == pre[get_by_path(pre, obj, SubSeq(path, 1, Len(path) - 1)).val.i]
            key == path[Len(path)]
            len == Len(parent.items)
            n == ListIndex(len, key.i)
            m == ListIndex(len - 1, key.i)
        IN IF parent.t = "dict" THEN calls[2].st = "KeyError"
           ELSE IF m = 0 THEN calls[2].st = "IndexError"
           ELSE /\ calls[2].st = "ok"
                /\ calls[2].val = parent.items[IF m < n THEN m ELSE m + 1].v

C4_Witness ==
    /\ DelThenGet /\ Len(path) = 2
    /\ calls[2].st = "KeyError"

\* One subscription of a literal: [ok, t], as a mapping, a sequence and a
\* string answer it.
TreeItem(t, key) ==
    IF t.t = "dict"
    THEN LET n == DictIndex(t.items, key)
         IN IF n = 0 THEN [ok |-> FALSE, t |-> t] ELSE [ok |-> TRUE, t |-> t.items[n].v]
    ELSE IF key.kind # "int" THEN [ok |-> FALSE, t |-> t]
    ELSE IF t.t = "list"
    THEN LET n == ListIndex(Len(t.items), key.i)
         IN IF n = 0 THEN [ok |-> FALSE, t |-> t] ELSE [ok |-> TRUE, t |-> t.items[n].v]
    ELSE IF t.v.kind = "str" /\ ListIndex(Len(t.v.s), key.i) # 0
    THEN [ok |-> TRUE, t |-> Leaf(StrV(SubSeq(t.v.s, ListIndex(Len(t.v.s), key.i),
                                              ListIndex(Len(t.v.s), key.i))))]
    ELSE [ok |-> FALSE, t |-> t]

\* Whether the path p leaves the literal t at a mapping: its keys resolve
\* down to a mapping that lacks the next one.
RECURSIVE MissingInMapping(_, _)
MissingInMapping(t, p) ==
    IF p = <<>> \/ t.t = "leaf" THEN FALSE
    ELSE IF t.t = "dict" /\ DictIndex(t.items, Head(p)) = 0 THEN TRUE
    ELSE LET r == TreeItem(t, Head(p))
         IN r.ok /\ MissingInMapping(r.t, Tail(p))

C10_AllOrNothing ==
    Len(calls) = 1 /\ calls[1].st \in Failures =>
        ToTree(heap, obj) = ToTree(calls[1].pre, obj)

C10_Witness ==
    /\ Len(calls) = 1 /\ calls[1].op = "set_by_path"
    /\ calls[1].st = "IndexError" /\ Len(path) = 2
    /\ ToTree(calls[1].pre, obj).items # <<>>

---------------------------------------------------------------------------
(* What the claims about the field search say, stated on literals *)

\* Whether path p resolves in the literal t.
RECURSIVE Resolves(_, _)
Resolves(t, p) ==
    IF p = <<>> THEN TRUE
    ELSE LET r == TreeItem(t, Head(p)) IN r.ok /\ Resolves(r.t, Tail(p))

\* The key of the n-th entry of a container literal: its key or its index.
KeyAt(t, n) == IF t.t = "dict" THEN t.items[n].k ELSE IntV(n - 1)

RECURSIVE Concat(_)
Concat(qs) == IF qs = <<>> THEN <<>> ELSE Head(qs) \o Concat(Tail(qs))

\* The paths whose final key or index equals the simple field f, depth first,
\* a node's own entry before what lies below it.
RECURSIVE LocationsOf(_, _, _)
LocationsOf(t, f, current) ==
    Concat([n \in 1..Len(t.items) |->
        (IF KeyAt(t, n) = f THEN <<Append(current, KeyAt(t, n))>> ELSE <<>>)
        \o (IF t.items[n].v.t # "leaf"
            THEN LocationsOf(t.items[n].v, f, Append(current, KeyAt(t, n)))
            ELSE <<>>)])

\* prefix + field for each node where the compound field p resolves and none
\* of whose ancestors resolves it, depth first; scalars hold no node.
RECURSIVE ResolvingNodes(_, _, _)
ResolvingNodes(t, p, current) ==
    IF t.t = "leaf" THEN <<>>
    ELSE IF Resolves(t, p) THEN <<current \o p>>
    ELSE Concat([n \in 1..Len(t.items) |->
             ResolvingNodes(t.items[n].v, p, Append(current, KeyAt(t, n)))])

Searched == Len(calls) >= 1 /\ calls[1].op = "paths_to_field"

\* C5: for a simple field f, paths_to_field yields exactly the paths whose
\* final key (in a mapping) or index (in a sequence) equals f, each once, depth
\* first in pre-order, and each resolves via get_by_path.
C5_SimpleFieldLocations ==
    Searched /\ ~path.deep =>
        /\ calls[1].st = "ok"
        /\ calls[1].val = LocationsOf(ToTree(heap, obj), path.key, <<>>)
        /\ \A n \in 1..Len(calls[1].val) :
              get_by_path(heap, obj, calls[1].val[n]).st = "ok"

\* C6: for a compound field, paths_to_field completes without error on every
\* container, scalar children included, and yields prefix + field exactly for
\* the nodes where the field resolves and no ancestor resolves it.
C6_CompoundFieldAnyDepth ==
    Searched /\ path.deep =>
        /\ calls[1].st = "ok"
        /\ calls[1].val = ResolvingNodes(ToTree(heap, obj), path.keys, <<>>)

---------------------------------------------------------------------------
(* What the claim about the deduplication says *)

\* xs and ys hold the same values up to equality.
SameValues(h, xs, ys) ==
    /\ \A n \in 1..Len(xs) : Contains(h, ys, xs[n])
    /\ \A n \in 1..Len(ys) : Contains(h, xs, ys[n])

\* C8: deduped_items never raises, its result holds one element of each
\* equality class of the items (no two equal, every item equal to one of
\* them), and deduplicating the result again gives the same values.
C8_DedupedItems ==
    /\ Len(calls) >= 1 =>
          /\ calls[1].st = "ok"
          /\ \A n, m \in 1..Len(calls[1].val) :
                n # m => ~PyEq(heap, calls[1].val[n], calls[1].val[m])
          /\ SameValues(heap, value, calls[1].val)
    /\ Len(calls) = 2 =>
          /\ calls[2].st = "ok"
          /\ SameValues(heap, calls[1].val, calls[2].val)

C8_Witness ==
    /\ Len(calls) = 2
    /\ Len(value) = 3 /\ Len(calls[2].val) = 2
    /\ value[1].kind = "ref" /\ value[3].kind = "ref" /\ value[1] # value[3]
    /\ PyEq(heap, value[1], value[3])
    /\ heap[value[1].i].items # <<>>
    /\ heap[value[1].i].items[1] # heap[value[3].i].items[1]
    /\ Hashable(value[2])

---------------------------------------------------------------------------
(* What the claims about the wrapper say *)

Called(op) == calls # <<>> /\ calls[1].op = op

Reads == {"get", "__getitem__"}

\* C1: after every mutating operation made through the wrapper that has
\* returned (item assignment and deletion, inherited methods, in-place
\* operators), the wrapper's contents equal its _obj.
C1_WrapperEqualsSource ==
    calls # <<>> /\ calls[1].op \notin Reads /\ calls[1].st = "ok" =>
        PyEq(heap, dc, heap[dc.i]._obj)

\* C2: after dc.append(x) on a wrapper of the caller's list s, s itself has
\* x as its last element.
C2_AppendReachesCallersList ==
    Called("append") /\ calls[1].st = "ok" =>
        /\ heap[s.i].items # <<>>
        /\ heap[s.i].items[Len(heap[s.i].items)].v = value

\* The path a subscript stands for.
KeysOf(p) == IF p.deep THEN p.keys ELSE <<p.key>>

\* C9: dc.get(path, default) never raises, and returns default for every
\* simple or compound path that does not resolve in the wrapped container
\* (missing key, index out of range, subscript of a scalar); the plain
\* subscription dc[path] raises there: only get turns the failure into a value.
C9_GetReturnsDefault ==
    /\ Called("get") =>
          /\ calls[1].st = "ok"
          /\ ~Resolves(ToTree(heap, heap[dc.i]._obj), KeysOf(path)) =>
                calls[1].val = value
    /\ Called("__getitem__") =>
          (~Resolves(ToTree(heap, heap[dc.i]._obj), KeysOf(path))
              <=> calls[1].st \in Failures)

C9_Witness ==
    /\ Called("get") /\ calls[1].val = value
    /\ path.deep /\ Len(path.keys) = 2
    /\ LET t == ToTree(heap, heap[dc.i]._obj)
       IN /\ Resolves(t, <<path.keys[1]>>)
          /\ TreeItem(t, path.keys[1]).t.t = "leaf"
          /\ TreeItem(t, path.keys[1]).t.v.kind = "int"
    /\ ~PyEq(heap, dc, heap[dc.i]._obj)

====
